---- MODULE Spec2Model ----
(***************************************************************************)
(* Model of the payments ledger (src/src/compute.rs, src/src/data.rs).     *)
(*                                                                         *)
(* The ledger owns two maps: accounts (ClientId -> Account) and txset      *)
(* (TxId -> Transaction).  Its single operation is use_tx.  Amounts are    *)
(* rust_decimal values; they are modelled as exact integers counting units *)
(* of the smallest representable step, which is what Decimal addition,     *)
(* subtraction and comparison compute far below its 96-bit range.          *)
(* Option<Decimal> is modelled as a sequence: <<>> is None, <<v>> is       *)
(* Some(v).                                                                *)
(***************************************************************************)
EXTENDS Integers, Sequences, FiniteSets, TLC

\* ---------------------------------------------------------------- bounds
\* The largest amount a transaction carries.
MaxAmount == 1

\* The client and transaction identifiers the calls draw from: two of each,
\* so that a call can name another client's record and reuse or avoid an id.
ClientIds == {1, 2}

TxIds == {1, 2}

\* ------------------------------------------------------------ data types
None == <<>>

Some(v) == <<v>>

\* Every amount a caller can put in a transaction: absent, negative, zero,
\* positive.
Amounts == {None} \cup {Some(v) : v \in ((0 - 1)..MaxAmount)}

TxType == {"Deposit", "Withdrawal", "Dispute", "Resolve", "Chargeback"}

Transaction == [txtype : TxType, client : ClientIds, id : TxIds, amount : Amounts]

\* Account::default() alone: the client field left at its default.
NewAccountDefault(c) == [client |-> 0, available |-> 0, held |-> 0, locked |-> FALSE]

\* Account { client, ..Account::default() }
NewAccount(c) == [client |-> c, available |-> 0, held |-> 0, locked |-> FALSE]

\* Result<(), Error>
Ok == [kind |-> "Ok"]

DuplicateTransaction(id) == [kind |-> "DuplicateTransaction", id |-> id]

TransactionNotFound(id) == [kind |-> "TransactionNotFound", id |-> id]

InsufficientFunds(asked, available) ==
    [kind |-> "InsufficientFunds", asked |-> asked, available |-> available]

AccountLocked == [kind |-> "AccountLocked"]

NegativeAmount == [kind |-> "NegativeAmount"]

MissingAmount == [kind |-> "MissingAmount"]

UnattendedforAmount == [kind |-> "UnattendedforAmount"]

WrongDispute == [kind |-> "WrongDispute"]

DisputeMismatch == [kind |-> "DisputeMismatch"]

\* ------------------------------------------------------- pure operations
\* tx.amount.unwrap_or_default().is_sign_negative()
IsNegative(amount) == amount # None /\ amount[1] < 0

\* self.accounts.entry(tx.client).or_insert(Account { client, ..default })
EntryOrInsert(accs, c) ==
    IF c \in DOMAIN accs THEN accs
    ELSE [k \in DOMAIN accs \cup {c} |-> IF k = c THEN NewAccount(c) ELSE accs[k]]

\* self.txset.insert(tx.id, tx): HashMap::insert stores the new value
\* whether or not the key was present.
TxsetInsert(txs, tx) ==
    [k \in DOMAIN txs \cup {tx.id} |-> IF k = tx.id THEN tx ELSE txs[k]]

\* Writes through the &mut Account obtained from the entry.
SetAccount(accs, c, acc) == [accs EXCEPT ![c] = acc]

Outcome(accs, txs, res) == [accounts |-> accs, txset |-> txs, result |-> res]

\* Deposit arm that credits the amount before looking at the duplicate test.
DoDepositCreditsDuplicate(accs, txs, tx) ==
    LET account == accs[tx.client]
        txs1 == TxsetInsert(txs, tx)
        credit == IF tx.amount = None THEN 0 ELSE tx.amount[1]
        accs1 == SetAccount(accs, tx.client, [account EXCEPT !.available = @ + credit])
    IN  IF tx.id \in DOMAIN txs THEN Outcome(accs1, txs1, DuplicateTransaction(tx.id))
        ELSE IF tx.amount = None THEN Outcome(accs, txs1, MissingAmount)
        ELSE Outcome(accs1, txs1, Ok)

\* Deposit arm that credits the held balance instead of the available one.
DoDepositCreditsHeld(accs, txs, tx) ==
    LET account == accs[tx.client]
        txs1 == TxsetInsert(txs, tx)
    IN  IF tx.id \in DOMAIN txs THEN Outcome(accs, txs1, DuplicateTransaction(tx.id))
        ELSE IF tx.amount = None THEN Outcome(accs, txs1, MissingAmount)
        ELSE Outcome(SetAccount(accs, tx.client,
                        [account EXCEPT !.held = @ + tx.amount[1]]),
                     txs1, Ok)

\* The Deposit arm.
DoDeposit(accs, txs, tx) ==
    LET account == accs[tx.client]
        txs1 == TxsetInsert(txs, tx)
    IN  IF tx.id \in DOMAIN txs THEN Outcome(accs, txs1, DuplicateTransaction(tx.id))
        ELSE IF tx.amount = None THEN Outcome(accs, txs1, MissingAmount)
        ELSE Outcome(SetAccount(accs, tx.client,
                        [account EXCEPT !.available = @ + tx.amount[1]]),
                     txs1, Ok)

\* Withdrawal arm without the funds test.
DoWithdrawalUnchecked(accs, txs, tx) ==
    LET account == accs[tx.client]
        txs1 == TxsetInsert(txs, tx)
    IN  IF tx.id \in DOMAIN txs THEN Outcome(accs, txs1, DuplicateTransaction(tx.id))
        ELSE IF tx.amount = None THEN Outcome(accs, txs1, MissingAmount)
        ELSE Outcome(SetAccount(accs, tx.client,
                        [account EXCEPT !.available = @ - tx.amount[1]]),
                     txs1, Ok)

\* Withdrawal arm whose funds test is <= instead of <.
DoWithdrawalOffByOne(accs, txs, tx) ==
    LET account == accs[tx.client]
        txs1 == TxsetInsert(txs, tx)
    IN  IF tx.id \in DOMAIN txs THEN Outcome(accs, txs1, DuplicateTransaction(tx.id))
        ELSE IF tx.amount = None THEN Outcome(accs, txs1, MissingAmount)
        ELSE IF account.available <= tx.amount[1]
             THEN Outcome(accs, txs1, InsufficientFunds(tx.amount[1], account.available))
        ELSE Outcome(SetAccount(accs, tx.client,
                        [account EXCEPT !.available = @ - tx.amount[1]]),
                     txs1, Ok)

\* Withdrawal arm that records the transaction and returns Ok without
\* taking the amount out of the account.
DoWithdrawalNoDebit(accs, txs, tx) ==
    LET account == accs[tx.client]
        txs1 == TxsetInsert(txs, tx)
    IN  IF tx.id \in DOMAIN txs THEN Outcome(accs, txs1, DuplicateTransaction(tx.id))
        ELSE IF tx.amount = None THEN Outcome(accs, txs1, MissingAmount)
        ELSE IF account.available < tx.amount[1]
             THEN Outcome(accs, txs1, InsufficientFunds(tx.amount[1], account.available))
        ELSE Outcome(accs, txs1, Ok)

\* The Withdrawal arm.
DoWithdrawal(accs, txs, tx) ==
    LET account == accs[tx.client]
        txs1 == TxsetInsert(txs, tx)
    IN  IF tx.id \in DOMAIN txs THEN Outcome(accs, txs1, DuplicateTransaction(tx.id))
        ELSE IF tx.amount = None THEN Outcome(accs, txs1, MissingAmount)
        ELSE IF account.available < tx.amount[1]
             THEN Outcome(accs, txs1, InsufficientFunds(tx.amount[1], account.available))
        ELSE Outcome(SetAccount(accs, tx.client,
                        [account EXCEPT !.available = @ - tx.amount[1]]),
                     txs1, Ok)

\* The checks shared, verbatim, by the Dispute, Resolve and Chargeback arms
\* up to the balance test: Ok when the referenced record passes them all.
LookupError(accs, txs, tx) ==
    LET account == accs[tx.client]
    IN  IF tx.amount # None THEN UnattendedforAmount
        ELSE IF tx.id \notin DOMAIN txs THEN TransactionNotFound(tx.id)
        ELSE IF txs[tx.id].txtype # "Deposit" THEN WrongDispute
        ELSE IF txs[tx.id].client # account.client THEN DisputeMismatch
        ELSE IF txs[tx.id].amount = None THEN MissingAmount
        ELSE Ok

\* Dispute arm that holds the amount without taking it from available.
DoDisputeKeepsAvailable(accs, txs, tx) ==
    LET account == accs[tx.client]
        err == LookupError(accs, txs, tx)
    IN  IF err # Ok THEN Outcome(accs, txs, err)
        ELSE LET amount == txs[tx.id].amount[1]
             IN  IF account.available < amount
                 THEN Outcome(accs, txs, InsufficientFunds(amount, account.available))
                 ELSE Outcome(SetAccount(accs, tx.client,
                                 [account EXCEPT !.held = @ + amount]),
                              txs, Ok)

\* The Dispute arm.
DoDispute(accs, txs, tx) ==
    LET account == accs[tx.client]
        err == LookupError(accs, txs, tx)
    IN  IF err # Ok THEN Outcome(accs, txs, err)
        ELSE LET amount == txs[tx.id].amount[1]
             IN  IF account.available < amount
                 THEN Outcome(accs, txs, InsufficientFunds(amount, account.available))
                 ELSE Outcome(SetAccount(accs, tx.client,
                                 [account EXCEPT !.available = @ - amount,
                                                 !.held = @ + amount]),
                              txs, Ok)

\* Resolve arm that releases the held amount without returning it.
DoResolveDropsFunds(accs, txs, tx) ==
    LET account == accs[tx.client]
        err == LookupError(accs, txs, tx)
    IN  IF err # Ok THEN Outcome(accs, txs, err)
        ELSE LET amount == txs[tx.id].amount[1]
             IN  IF account.held < amount
                 THEN Outcome(accs, txs, InsufficientFunds(amount, account.held))
                 ELSE Outcome(SetAccount(accs, tx.client,
                                 [account EXCEPT !.held = @ - amount]),
                              txs, Ok)

\* The Resolve arm.
DoResolve(accs, txs, tx) ==
    LET account == accs[tx.client]
        err == LookupError(accs, txs, tx)
    IN  IF err # Ok THEN Outcome(accs, txs, err)
        ELSE LET amount == txs[tx.id].amount[1]
             IN  IF account.held < amount
                 THEN Outcome(accs, txs, InsufficientFunds(amount, account.held))
                 ELSE Outcome(SetAccount(accs, tx.client,
                                 [account EXCEPT !.available = @ + amount,
                                                 !.held = @ - amount]),
                              txs, Ok)

\* Chargeback arm that charges the account of the record's client, without
\* comparing it with the transaction's client.
DoChargebackOnRecordOwner(accs, txs, tx) ==
    IF tx.amount # None THEN Outcome(accs, txs, UnattendedforAmount)
    ELSE IF tx.id \notin DOMAIN txs THEN Outcome(accs, txs, TransactionNotFound(tx.id))
    ELSE IF txs[tx.id].txtype # "Deposit" THEN Outcome(accs, txs, WrongDispute)
    ELSE IF txs[tx.id].amount = None THEN Outcome(accs, txs, MissingAmount)
    ELSE LET owner == txs[tx.id].client
             account == accs[owner]
             amount == txs[tx.id].amount[1]
         IN  IF account.held < amount
             THEN Outcome(accs, txs, InsufficientFunds(amount, account.held))
             ELSE Outcome(SetAccount(accs, owner,
                             [account EXCEPT !.held = @ - amount,
                                             !.locked = TRUE]),
                          txs, Ok)

\* Chargeback arm that writes the held amount off without locking.
DoChargebackNoLock(accs, txs, tx) ==
    LET account == accs[tx.client]
        err == LookupError(accs, txs, tx)
    IN  IF err # Ok THEN Outcome(accs, txs, err)
        ELSE LET amount == txs[tx.id].amount[1]
             IN  IF account.held < amount
                 THEN Outcome(accs, txs, InsufficientFunds(amount, account.held))
                 ELSE Outcome(SetAccount(accs, tx.client,
                                 [account EXCEPT !.held = @ - amount]),
                              txs, Ok)

\* The Chargeback arm.
DoChargeback(accs, txs, tx) ==
    LET account == accs[tx.client]
        err == LookupError(accs, txs, tx)
    IN  IF err # Ok THEN Outcome(accs, txs, err)
        ELSE LET amount == txs[tx.id].amount[1]
             IN  IF account.held < amount
                 THEN Outcome(accs, txs, InsufficientFunds(amount, account.held))
                 ELSE Outcome(SetAccount(accs, tx.client,
                                 [account EXCEPT !.held = @ - amount,
                                                 !.locked = TRUE]),
                              txs, Ok)

\* The locked test left out.
LockedCheckSkipped(account) == FALSE

\* if account.locked { return Err(Error::AccountLocked); }
LockedCheck(account) == account.locked

\* use_tx that fetches or creates the account before it tests the sign.
UseTxLooksUpFirst(accs, txs, tx) ==
    LET accs1 == EntryOrInsert(accs, tx.client)
    IN  IF IsNegative(tx.amount) THEN Outcome(accs1, txs, NegativeAmount)
        ELSE IF LockedCheck(accs1[tx.client]) THEN Outcome(accs1, txs, AccountLocked)
        ELSE CASE tx.txtype = "Deposit" -> DoDeposit(accs1, txs, tx)
               [] tx.txtype = "Withdrawal" -> DoWithdrawal(accs1, txs, tx)
               [] tx.txtype = "Dispute" -> DoDispute(accs1, txs, tx)
               [] tx.txtype = "Resolve" -> DoResolve(accs1, txs, tx)
               [] tx.txtype = "Chargeback" -> DoChargeback(accs1, txs, tx)

\* use_tx with the locked test moved into the arms that take funds out or
\* hold them, so that a locked account still accepts a Deposit.
UseTxLockedTestInArms(accs, txs, tx) ==
    IF IsNegative(tx.amount) THEN Outcome(accs, txs, NegativeAmount)
    ELSE LET accs1 == EntryOrInsert(accs, tx.client)
         IN  IF tx.txtype = "Deposit" THEN DoDeposit(accs1, txs, tx)
             ELSE IF LockedCheck(accs1[tx.client]) THEN Outcome(accs1, txs, AccountLocked)
             ELSE CASE tx.txtype = "Withdrawal" -> DoWithdrawal(accs1, txs, tx)
                    [] tx.txtype = "Dispute" -> DoDispute(accs1, txs, tx)
                    [] tx.txtype = "Resolve" -> DoResolve(accs1, txs, tx)
                    [] tx.txtype = "Chargeback" -> DoChargeback(accs1, txs, tx)

\* Accounts::use_tx as a function of the ledger and the transaction.
UseTx(accs, txs, tx) ==
    IF IsNegative(tx.amount) THEN Outcome(accs, txs, NegativeAmount)
    ELSE LET accs1 == EntryOrInsert(accs, tx.client)
         IN  IF LockedCheck(accs1[tx.client]) THEN Outcome(accs1, txs, AccountLocked)
             ELSE CASE tx.txtype = "Deposit" -> DoDeposit(accs1, txs, tx)
                    [] tx.txtype = "Withdrawal" -> DoWithdrawal(accs1, txs, tx)
                    [] tx.txtype = "Dispute" -> DoDispute(accs1, txs, tx)
                    [] tx.txtype = "Resolve" -> DoResolve(accs1, txs, tx)
                    [] tx.txtype = "Chargeback" -> DoChargeback(accs1, txs, tx)

\* ----------------------------------------------------------------- state
VARIABLES
    accounts,   \* Accounts.accounts : HashMap<ClientId, Account>
    txset,      \* Accounts.txset    : HashMap<TxId, Transaction>
    credited,   \* history variable: {<<client, id, amount>>} of the Deposits
                \* that returned Ok, i.e. that reached `account.available += amount`
    input,      \* read_transactions: the records of the reader, in order
    pos,        \* read_transactions: how many records the loop has consumed
    status,     \* read_transactions: "idle" (not running), "reading",
                \* "done" (returned Ok), "failed" (returned Err)
    stderr,     \* read_transactions: the <<id, error>> pairs it has printed
    open,       \* history variable, kept by SpecDisputes only: the ids named
                \* by a Dispute that returned Ok with no Resolve of that id
                \* returning Ok since
    funds       \* history variable, kept by SpecFunds only: per client, the
                \* amounts its calls returning Ok deposited, less those they
                \* withdrew or charged back

vars == <<accounts, txset, credited, input, pos, status, stderr, open, funds>>

EmptyMap == [k \in {} |-> 0]

\* Accounts::new(), with no driver running.
Init ==
    /\ accounts = EmptyMap
    /\ txset = EmptyMap
    /\ credited = {}
    /\ input = <<>>
    /\ pos = 0
    /\ status = "idle"
    /\ stderr = <<>>
    /\ open = {}
    /\ funds = [c \in ClientIds |-> 0]

\* The Deposits credited so far, after a call with transaction tx that
\* returned res.
Credit(cr, tx, res) ==
    IF tx.txtype = "Deposit" /\ res = Ok
    THEN cr \cup {<<tx.client, tx.id, tx.amount[1]>>}
    ELSE cr

\* The ids under dispute, after a call with transaction tx that returned res.
Disputed(op, tx, res) ==
    IF res # Ok THEN op
    ELSE IF tx.txtype = "Dispute" THEN op \cup {tx.id}
    ELSE IF tx.txtype = "Resolve" THEN op \ {tx.id}
    ELSE op

\* One call of use_tx with an arbitrary transaction.
use_tx ==
    \E tx \in Transaction :
        LET r == UseTx(accounts, txset, tx)
        IN  /\ accounts' = r.accounts
            /\ txset' = r.txset
            /\ credited' = Credit(credited, tx, r.result)
            /\ UNCHANGED <<input, pos, status, stderr, open, funds>>

Next == use_tx

Spec == Init /\ [][Next]_vars

\* The same call of use_tx, observed through the disputes it opens and
\* closes instead of the deposits it credits.
use_tx_disputes ==
    \E tx \in Transaction :
        LET r == UseTx(accounts, txset, tx)
        IN  /\ accounts' = r.accounts
            /\ txset' = r.txset
            /\ open' = Disputed(open, tx, r.result)
            /\ UNCHANGED <<input, pos, status, stderr, credited, funds>>

NextDisputes == use_tx_disputes

SpecDisputes == Init /\ [][NextDisputes]_vars

\* The funds each client has brought in, after a call with transaction tx
\* that returned res on a history txs: `available += amount` of a Deposit,
\* `available -= amount` of a Withdrawal, and `held -= amount` of a
\* Chargeback, whose amount is the one recorded under tx.id.
Funded(fu, txs, tx, res) ==
    IF res # Ok THEN fu
    ELSE IF tx.txtype = "Deposit"
         THEN [fu EXCEPT ![tx.client] = @ + tx.amount[1]]
    ELSE IF tx.txtype = "Withdrawal"
         THEN [fu EXCEPT ![tx.client] = @ - tx.amount[1]]
    ELSE IF tx.txtype = "Chargeback"
         THEN [fu EXCEPT ![tx.client] = @ - txs[tx.id].amount[1]]
    ELSE fu

\* The same call of use_tx, observed through the funds it moves in and out
\* of the ledger.
use_tx_funds ==
    \E tx \in Transaction :
        LET r == UseTx(accounts, txset, tx)
        IN  /\ accounts' = r.accounts
            /\ txset' = r.txset
            /\ funds' = Funded(funds, txset, tx, r.result)
            /\ UNCHANGED <<input, pos, status, stderr, credited, open>>

NextFunds == use_tx_funds

SpecFunds == Init /\ [][NextFunds]_vars

\* ---------------------------------------------------------------- driver
\* pub const SIGNIFICANT_DIGITS: u32 = 4
SIGNIFICANT_DIGITS == 4

\* The number of records of an input.
MaxRecords == 3

\* A Decimal as the reader delivers it: mantissa m and scale e, worth
\* m * 10^(-e).
Dec(m, e) == [m |-> m, e |-> e]

\* amount.rescale(scale): the mantissa of the value at the new scale, which
\* is the amount in the ledger's unit.  A larger scale multiplies by the
\* power of ten, a smaller one divides and rounds to the nearest.
Rescale(d, scale) ==
    IF d.e <= scale THEN d.m * 10^(scale - d.e)
    ELSE LET q == 10^(d.e - scale)
             mag == IF d.m < 0 THEN 0 - d.m ELSE d.m
             rounded == (mag + (q \div 2)) \div q
         IN  IF d.m < 0 THEN 0 - rounded ELSE rounded

\* A record the deserializer cannot turn into a Transaction.
Malformed == [malformed |-> TRUE]

\* The amounts of the input records: absent, 0.00014 and -0.001.
DriverAmounts == {None, Some(Dec(14, 5)), Some(Dec(0 - 1, 3))}

\* The records an input is made of.
DriverItems ==
    {Malformed} \cup
    [txtype : TxType, client : {1}, id : {1}, amount : DriverAmounts]

\* if let Some(mut amount) = tx.amount { amount.rescale(..); tx.amount = .. }
Normalize(tx) ==
    IF tx.amount = None THEN tx
    ELSE [tx EXCEPT !.amount = Some(Rescale(tx.amount[1], SIGNIFICANT_DIGITS))]

\* A loop that gives up at the first transaction the user rejects.
AfterUseTxAborts(res) == IF res = Ok THEN "reading" ELSE "failed"

\* if let Err(e) = user.use_tx(tx) { eprintln!(..) }: the loop goes on
\* whatever use_tx returned.
AfterUseTx(res) == "reading"

\* main: Accounts::new(), then read_transactions on the opened file.
InitDriver ==
    /\ accounts = EmptyMap
    /\ txset = EmptyMap
    /\ credited = {}
    /\ input \in [1..MaxRecords -> DriverItems]
    /\ pos = 0
    /\ status = "reading"
    /\ stderr = <<>>
    /\ open = {}
    /\ funds = [c \in ClientIds |-> 0]

\* One turn of the loop on a record that deserializes.
read_record ==
    /\ status = "reading"
    /\ pos < Len(input)
    /\ input[pos + 1] # Malformed
    /\ LET tx == Normalize(input[pos + 1])
           r == UseTx(accounts, txset, tx)
       IN  /\ accounts' = r.accounts
           /\ txset' = r.txset
           /\ credited' = Credit(credited, tx, r.result)
           /\ stderr' = IF r.result = Ok THEN stderr
                        ELSE Append(stderr, <<tx.id, r.result>>)
           /\ status' = AfterUseTx(r.result)
    /\ pos' = pos + 1
    /\ UNCHANGED <<input, open, funds>>

\* `let mut tx: Transaction = result?;` on a record that does not
\* deserialize: read_transactions returns the error.
parse_error ==
    /\ status = "reading"
    /\ pos < Len(input)
    /\ input[pos + 1] = Malformed
    /\ status' = "failed"
    /\ UNCHANGED <<accounts, txset, credited, input, pos, stderr, open, funds>>

\* The iterator is exhausted: Ok(()).
end_of_input ==
    /\ status = "reading"
    /\ pos = Len(input)
    /\ status' = "done"
    /\ UNCHANGED <<accounts, txset, credited, input, pos, stderr, open, funds>>

NextDriver == read_record \/ parse_error \/ end_of_input

SpecDriver == InitDriver /\ [][NextDriver]_vars

\* ---------------------------------------------------------------- output
\* An AccountSerializer whose total is the available balance alone.
AccountSerializerTotalIsAvailable(account) ==
    [client |-> account.client,
     total |-> account.available,
     available |-> account.available,
     held |-> account.held,
     locked |-> account.locked]

\* impl From<Account> for AccountSerializer
AccountSerializerFrom(account) ==
    [client |-> account.client,
     total |-> account.available + account.held,
     available |-> account.available,
     held |-> account.held,
     locked |-> account.locked]

\* The orders in which accounts.values() can visit the accounts: HashMap
\* iteration order is unspecified, each key is visited once.
ValuesOrders(accs) ==
    LET n == Cardinality(DOMAIN accs)
    IN  {o \in [1..n -> DOMAIN accs] : \A c \in DOMAIN accs : \E i \in 1..n : o[i] = c}

\* write_accounts: the records serialized, one sequence per possible
\* iteration order.
WriteAccounts(accs) ==
    {[i \in 1..Len(o) |-> AccountSerializerFrom(accs[o[i]])] : o \in ValuesOrders(accs)}

\* ----------------------------------------------------- claim vocabulary
\* The account a call for client c works on: the stored one, or the one
\* entry().or_insert() creates.
AccountOf(accs, c) == IF c \in DOMAIN accs THEN accs[c] ELSE NewAccount(c)

\* A Deposit or Withdrawal carrying a present, non-negative amount.
IsLedgerTx(tx) ==
    /\ tx.txtype \in {"Deposit", "Withdrawal"}
    /\ tx.amount # None
    /\ tx.amount[1] >= 0

\* Every client's available and held are the same in both account maps.
SameBalances(accs1, accs2) ==
    \A c \in ClientIds :
        /\ AccountOf(accs1, c).available = AccountOf(accs2, c).available
        /\ AccountOf(accs1, c).held = AccountOf(accs2, c).held

\* ----------------------------------------------------------------- C1
\* C1: whenever use_tx returns an error, the accounts map and the history
\* map after the call equal those before it.
C1FailureIsAtomic ==
    \A tx \in Transaction :
        LET r == UseTx(accounts, txset, tx)
        IN  r.result # Ok => r.accounts = accounts /\ r.txset = txset

\* ----------------------------------------------------------------- C2
\* C2: in every reachable state every account has available >= 0 and
\* held >= 0.
C2BalancesNonNegative ==
    \A c \in DOMAIN accounts :
        accounts[c].available >= 0 /\ accounts[c].held >= 0

\* An account whose funds are all held, on which a withdrawal of a positive
\* amount with an unused id is rejected for lack of funds.
C2Witness ==
    \E tx \in Transaction :
        /\ tx.txtype = "Withdrawal"
        /\ tx.client \in DOMAIN accounts
        /\ accounts[tx.client].available = 0
        /\ accounts[tx.client].held > 0
        /\ tx.id \notin DOMAIN txset
        /\ UseTx(accounts, txset, tx).result.kind = "InsufficientFunds"

\* ----------------------------------------------------------------- C3
\* C3: a history entry, once present, is never removed and its record never
\* changes in any later step.
C3HistoryImmutable ==
    [][\A id \in DOMAIN txset : id \in DOMAIN txset' /\ txset'[id] = txset[id]]_vars

\* ----------------------------------------------------------------- C4
\* C4: a Deposit or Withdrawal with a present non-negative amount, for a
\* client whose account is not locked, whose id is already a key of the
\* history returns DuplicateTransaction(id) and changes no account's
\* available or held.
C4DuplicateKeepsBalances ==
    \A tx \in Transaction :
        (/\ IsLedgerTx(tx)
         /\ ~AccountOf(accounts, tx.client).locked
         /\ tx.id \in DOMAIN txset)
        => LET r == UseTx(accounts, txset, tx)
           IN  /\ r.result = DuplicateTransaction(tx.id)
               /\ SameBalances(r.accounts, accounts)

\* A duplicate of positive amount, rejected, whose id was recorded with
\* another type, another client and another amount, for a funded client.
C4Witness ==
    \E tx \in Transaction :
        /\ IsLedgerTx(tx)
        /\ tx.amount[1] > 0
        /\ tx.client \in DOMAIN accounts
        /\ ~accounts[tx.client].locked
        /\ accounts[tx.client].available > 0
        /\ tx.id \in DOMAIN txset
        /\ txset[tx.id].txtype # tx.txtype
        /\ txset[tx.id].client # tx.client
        /\ txset[tx.id].amount # tx.amount
        /\ UseTx(accounts, txset, tx).result = DuplicateTransaction(tx.id)

\* ----------------------------------------------------------------- C5
\* C5 as stated: while an account is locked, every call for its client,
\* of every type and every amount, returns AccountLocked.
C5LockedRejectsAll ==
    \A tx \in Transaction :
        (tx.client \in DOMAIN accounts /\ accounts[tx.client].locked)
        => UseTx(accounts, txset, tx).result = AccountLocked

\* C5 as amended: a locked account stays locked across every call, and a
\* call for its client returns NegativeAmount when its amount is present
\* and negative and AccountLocked otherwise.
C5LockedRejects ==
    \A c \in DOMAIN accounts :
        accounts[c].locked
        => \A tx \in Transaction :
              LET r == UseTx(accounts, txset, tx)
              IN  /\ c \in DOMAIN r.accounts
                  /\ r.accounts[c].locked
                  /\ tx.client = c
                     => r.result = IF IsNegative(tx.amount) THEN NegativeAmount
                                    ELSE AccountLocked

\* A locked account next to an unlocked, funded one: a Deposit for the
\* locked client is refused with AccountLocked.
C5Witness ==
    \E c \in DOMAIN accounts, d \in DOMAIN accounts, tx \in Transaction :
        /\ accounts[c].locked
        /\ ~accounts[d].locked
        /\ accounts[d].available > 0
        /\ tx.client = c
        /\ tx.txtype = "Deposit"
        /\ tx.amount = Some(MaxAmount)
        /\ UseTx(accounts, txset, tx).result = AccountLocked

\* ----------------------------------------------------------------- C6
\* C6: a Dispute, Resolve or Chargeback for (client c, id t) returns Ok only
\* if a Deposit with id t was credited to c, and the amount a successful
\* Dispute takes from available is the amount that Deposit credited.
C6DisputeUsesCreditedDeposit ==
    \A tx \in Transaction :
        LET r == UseTx(accounts, txset, tx)
            moved == AccountOf(accounts, tx.client).available
                        - AccountOf(r.accounts, tx.client).available
        IN  (tx.txtype \in {"Dispute", "Resolve", "Chargeback"} /\ r.result = Ok)
            => /\ \E e \in credited : e[1] = tx.client /\ e[2] = tx.id
               /\ tx.txtype = "Dispute" => <<tx.client, tx.id, moved>> \in credited

\* ----------------------------------------------------------------- C7
\* C7: when a Dispute for (c, t) returns Ok, the Resolve for (c, t) applied
\* to the resulting ledger returns Ok and yields the accounts map and the
\* history of before the Dispute, with c's account unlocked.
C7DisputeResolveRoundTrip ==
    \A tx \in Transaction :
        tx.txtype = "Dispute"
        => LET r1 == UseTx(accounts, txset, tx)
               r2 == UseTx(r1.accounts, r1.txset, [tx EXCEPT !.txtype = "Resolve"])
           IN  r1.result = Ok
               => /\ r2.result = Ok
                  /\ r2.accounts = accounts
                  /\ r2.txset = txset
                  /\ ~r2.accounts[tx.client].locked

\* A Dispute that moves a positive amount to held, which the Resolve moves
\* back, while the other client holds a balance too.
C7Witness ==
    \E tx \in Transaction, d \in DOMAIN accounts :
        LET r1 == UseTx(accounts, txset, tx)
            r2 == UseTx(r1.accounts, r1.txset, [tx EXCEPT !.txtype = "Resolve"])
        IN  /\ tx.txtype = "Dispute"
            /\ r1.result = Ok
            /\ r1.accounts[tx.client].held > accounts[tx.client].held
            /\ r2.result = Ok
            /\ d # tx.client
            /\ accounts[d].available > 0

\* ----------------------------------------------------------------- C8
\* C8: a Withdrawal with a present non-negative amount and an unused id, for
\* a client whose account is not locked: if amount > available it returns
\* InsufficientFunds{asked: amount, available: available} and the account's
\* available, held and locked are unchanged; otherwise it returns Ok,
\* available decreases by amount, held and locked are unchanged.
C8Withdrawal ==
    \A tx \in Transaction :
        (/\ tx.txtype = "Withdrawal"
         /\ IsLedgerTx(tx)
         /\ tx.id \notin DOMAIN txset
         /\ ~AccountOf(accounts, tx.client).locked)
        => LET old == AccountOf(accounts, tx.client)
               r == UseTx(accounts, txset, tx)
               new == r.accounts[tx.client]
           IN  IF tx.amount[1] > old.available
               THEN /\ r.result = InsufficientFunds(tx.amount[1], old.available)
                    /\ new = old
               ELSE /\ r.result = Ok
                    /\ new = [old EXCEPT !.available = @ - tx.amount[1]]

\* A state offering both cases: a withdrawal of the whole positive available
\* balance succeeds, a withdrawal by a client without funds is refused.
C8Witness ==
    \E tx \in Transaction, ty \in Transaction :
        /\ tx.txtype = "Withdrawal" /\ ty.txtype = "Withdrawal"
        /\ tx.id \notin DOMAIN txset /\ ty.id \notin DOMAIN txset
        /\ tx.client \in DOMAIN accounts
        /\ tx.amount = Some(accounts[tx.client].available)
        /\ accounts[tx.client].available > 0
        /\ UseTx(accounts, txset, tx).result = Ok
        /\ UseTx(accounts, txset, tx).accounts[tx.client].available = 0
        /\ UseTx(accounts, txset, ty).result.kind = "InsufficientFunds"

\* ----------------------------------------------------------------- C9
\* C9: a Deposit with a present non-negative amount and an unused id, for a
\* client whose account is not locked or does not exist yet, returns Ok,
\* increases available by amount, leaves held and locked unchanged, and
\* stores under its id a record with its type, client and amount.
C9Deposit ==
    \A tx \in Transaction :
        (/\ tx.txtype = "Deposit"
         /\ IsLedgerTx(tx)
         /\ tx.id \notin DOMAIN txset
         /\ ~AccountOf(accounts, tx.client).locked)
        => LET old == AccountOf(accounts, tx.client)
               r == UseTx(accounts, txset, tx)
           IN  /\ r.result = Ok
               /\ r.accounts[tx.client] = [old EXCEPT !.available = @ + tx.amount[1]]
               /\ tx.id \in DOMAIN r.txset
               /\ r.txset[tx.id].txtype = "Deposit"
               /\ r.txset[tx.id].client = tx.client
               /\ r.txset[tx.id].amount = tx.amount

\* A Deposit of a positive amount accepted on an account that already has
\* available and held funds, and a first Deposit creating the other account.
C9Witness ==
    \E tx \in Transaction :
        /\ tx.txtype = "Deposit"
        /\ tx.amount = Some(MaxAmount)
        /\ tx.id \notin DOMAIN txset
        /\ tx.client \in DOMAIN accounts
        /\ accounts[tx.client].held > 0
        /\ UseTx(accounts, txset, tx).result = Ok
        /\ UseTx(accounts, txset, tx).accounts[tx.client].available
              = accounts[tx.client].available + MaxAmount
        /\ \E c \in ClientIds : c \notin DOMAIN accounts

\* ---------------------------------------------------------------- C10
\* C10: a Dispute without amount, for a client whose account is not locked,
\* naming a recorded Deposit of that client with amount a: if available < a
\* it returns InsufficientFunds and changes no balance; otherwise available
\* decreases by a, held increases by a, locked is unchanged.
C10Dispute ==
    \A tx \in Transaction :
        (/\ tx.txtype = "Dispute"
         /\ tx.amount = None
         /\ ~AccountOf(accounts, tx.client).locked
         /\ tx.id \in DOMAIN txset
         /\ txset[tx.id].txtype = "Deposit"
         /\ txset[tx.id].client = tx.client
         /\ txset[tx.id].amount # None)
        => LET a == txset[tx.id].amount[1]
               old == AccountOf(accounts, tx.client)
               r == UseTx(accounts, txset, tx)
               new == r.accounts[tx.client]
           IN  IF old.available < a
               THEN /\ r.result.kind = "InsufficientFunds"
                    /\ SameBalances(r.accounts, accounts)
               ELSE /\ r.result = Ok
                    /\ new = [old EXCEPT !.available = @ - a, !.held = @ + a]
                    /\ new.available + new.held = old.available + old.held

\* A state offering both cases: one recorded Deposit of positive amount is
\* disputed successfully, the Dispute of another is refused for lack of
\* available funds.
C10Witness ==
    \E tx \in Transaction, ty \in Transaction :
        /\ tx.txtype = "Dispute" /\ ty.txtype = "Dispute"
        /\ tx.amount = None /\ ty.amount = None
        /\ UseTx(accounts, txset, tx).result = Ok
        /\ txset[tx.id].amount[1] > 0
        /\ UseTx(accounts, txset, ty).result.kind = "InsufficientFunds"

\* ---------------------------------------------------------------- C11
\* C11: a Chargeback without amount, for a client whose account is not
\* locked, naming a recorded Deposit of that client with amount a: if
\* held < a it returns InsufficientFunds{asked: a, available: held} and
\* changes nothing; otherwise held decreases by a, available is unchanged
\* and locked becomes true.
C11Chargeback ==
    \A tx \in Transaction :
        (/\ tx.txtype = "Chargeback"
         /\ tx.amount = None
         /\ ~AccountOf(accounts, tx.client).locked
         /\ tx.id \in DOMAIN txset
         /\ txset[tx.id].txtype = "Deposit"
         /\ txset[tx.id].client = tx.client
         /\ txset[tx.id].amount # None)
        => LET a == txset[tx.id].amount[1]
               old == AccountOf(accounts, tx.client)
               r == UseTx(accounts, txset, tx)
           IN  IF old.held < a
               THEN /\ r.result = InsufficientFunds(a, old.held)
                    /\ r.accounts = accounts
                    /\ r.txset = txset
               ELSE /\ r.result = Ok
                    /\ r.accounts[tx.client]
                          = [old EXCEPT !.held = @ - a, !.locked = TRUE]
                    /\ r.txset = txset

\* A state offering both cases: the Chargeback of a disputed Deposit of
\* positive amount succeeds and locks, the Chargeback of another client's
\* undisputed Deposit is refused for lack of held funds.
C11Witness ==
    \E tx \in Transaction, ty \in Transaction :
        /\ tx.txtype = "Chargeback" /\ ty.txtype = "Chargeback"
        /\ tx.amount = None /\ ty.amount = None
        /\ UseTx(accounts, txset, tx).result = Ok
        /\ txset[tx.id].amount[1] > 0
        /\ UseTx(accounts, txset, tx).accounts[tx.client].locked
        /\ UseTx(accounts, txset, ty).result.kind = "InsufficientFunds"

\* ---------------------------------------------------------------- C12
\* The ledger that results from calling use_tx on each transaction of txs
\* in order, whatever each call returns.
RECURSIVE ApplyAll(_, _, _)
ApplyAll(accs, txs, recs) ==
    IF recs = <<>> THEN [accounts |-> accs, txset |-> txs]
    ELSE LET r == UseTx(accs, txs, Head(recs))
         IN  ApplyAll(r.accounts, r.txset, Tail(recs))

\* The first n input records as handed to use_tx.
Handed(n) == [i \in 1..n |-> Normalize(input[i])]

\* C12: the driver hands the records to use_tx one at a time in input
\* order, and a failing use_tx stops nothing: the ledger is the result of
\* use_tx on every record consumed so far, the run ends Ok only after the
\* last record, and it ends in error only at a record that does not
\* deserialize.
C12DriverAppliesAll ==
    /\ pos <= Len(input)
    /\ (\A i \in 1..pos : input[i] # Malformed)
       => LET f == ApplyAll(EmptyMap, EmptyMap, Handed(pos))
          IN  accounts = f.accounts /\ txset = f.txset
    /\ status = "done" => pos = Len(input)
    /\ status = "failed" => pos < Len(input) /\ input[pos + 1] = Malformed

\* A finished run whose first record was rejected by use_tx and reported,
\* and whose later records were applied: funds deposited and then disputed.
C12Witness ==
    /\ status = "done"
    /\ pos = MaxRecords
    /\ stderr # <<>>
    /\ UseTx(EmptyMap, EmptyMap, Normalize(input[1])).result # Ok
    /\ \E c \in DOMAIN accounts : accounts[c].held > 0

\* ---------------------------------------------------------------- C13
\* C13: in every reachable state, whatever the iteration order, the output
\* has exactly one record per account of the accounts map, whose total is
\* the account's available + held and whose client, available, held and
\* locked are the account's.
C13OutputMatchesAccounts ==
    \A out \in WriteAccounts(accounts) :
        /\ Len(out) = Cardinality(DOMAIN accounts)
        /\ \A c \in DOMAIN accounts :
              /\ Cardinality({i \in 1..Len(out) : out[i].client = c}) = 1
              /\ \A i \in 1..Len(out) :
                    out[i].client = c
                    => /\ out[i].total = accounts[c].available + accounts[c].held
                       /\ out[i].available = accounts[c].available
                       /\ out[i].held = accounts[c].held
                       /\ out[i].locked = accounts[c].locked

\* Two accounts, one with both available and held funds, so that its total
\* differs from either balance, written in two possible orders.
C13Witness ==
    /\ Cardinality(WriteAccounts(accounts)) = 2
    /\ \E out \in WriteAccounts(accounts) :
          /\ Len(out) = 2
          /\ out[1].available > 0
          /\ out[1].held > 0
          /\ out[1].total = out[1].available + out[1].held

\* ---------------------------------------------------------------- C14
\* C14: a transaction of any type whose amount is present and negative
\* returns NegativeAmount and leaves the accounts map (no account is
\* created) and the history exactly as they were, also when the client's
\* account is locked or the id is already in the history.
C14NegativeAmountFirst ==
    \A tx \in Transaction :
        IsNegative(tx.amount)
        => LET r == UseTx(accounts, txset, tx)
           IN  /\ r.result = NegativeAmount
               /\ r.accounts = accounts
               /\ r.txset = txset

\* A state in which negative amounts are refused for a client that has no
\* account, for a client whose account is locked, and for an id that is
\* already recorded.
C14Witness ==
    \E tx \in Transaction, ty \in Transaction :
        /\ IsNegative(tx.amount) /\ IsNegative(ty.amount)
        /\ tx.client \notin DOMAIN accounts
        /\ ty.client \in DOMAIN accounts
        /\ accounts[ty.client].locked
        /\ ty.id \in DOMAIN txset
        /\ UseTx(accounts, txset, tx).result = NegativeAmount
        /\ UseTx(accounts, txset, ty).result = NegativeAmount

\* ---------------------------------------------------------------- C15
\* C15: a Deposit or Withdrawal that fails, and every Dispute, Resolve or
\* Chargeback, adds no history entry; hence the history holds an id only
\* if a Deposit or Withdrawal with that id returned Ok, and the id of a
\* failed Withdrawal stays unused.
C15HistoryOnlyOnSuccess ==
    \A tx \in Transaction :
        LET r == UseTx(accounts, txset, tx)
        IN  (tx.txtype \notin {"Deposit", "Withdrawal"} \/ r.result # Ok)
            => DOMAIN r.txset = DOMAIN txset

\* ---------------------------------------------------------------- C16
\* C16: a Deposit or Withdrawal without amount, for a client whose account
\* is not locked, returns MissingAmount whether or not its id is in the
\* history, and leaves the history as it was.
C16MissingAmount ==
    \A tx \in Transaction :
        (/\ tx.txtype \in {"Deposit", "Withdrawal"}
         /\ tx.amount = None
         /\ ~AccountOf(accounts, tx.client).locked)
        => LET r == UseTx(accounts, txset, tx)
           IN  r.result = MissingAmount /\ r.txset = txset

\* ---------------------------------------------------------------- C17
\* The balance a dispute-family transaction compares with the recorded
\* amount: available for Dispute, held for Resolve and Chargeback.
RelevantBalance(tx) ==
    IF tx.txtype = "Dispute" THEN AccountOf(accounts, tx.client).available
    ELSE AccountOf(accounts, tx.client).held

\* The first applicable outcome of the claim's ordered list.
ListedOutcome(tx) ==
    IF tx.amount # None THEN "UnattendedforAmount"
    ELSE IF tx.id \notin DOMAIN txset THEN "TransactionNotFound"
    ELSE IF txset[tx.id].txtype # "Deposit" THEN "WrongDispute"
    ELSE IF txset[tx.id].client # tx.client THEN "DisputeMismatch"
    ELSE IF txset[tx.id].amount # None /\ RelevantBalance(tx) < txset[tx.id].amount[1]
         THEN "InsufficientFunds"
    ELSE "Ok"

\* C17: a Dispute, Resolve or Chargeback whose amount is not negative, for
\* a client whose account is not locked, returns the first applicable
\* outcome of: UnattendedforAmount, TransactionNotFound(id), WrongDispute,
\* DisputeMismatch, InsufficientFunds, Ok; and no other error kind.
C17DisputeFamilyOutcome ==
    \A tx \in Transaction :
        (/\ tx.txtype \in {"Dispute", "Resolve", "Chargeback"}
         /\ ~IsNegative(tx.amount)
         /\ ~AccountOf(accounts, tx.client).locked)
        => LET r == UseTx(accounts, txset, tx)
           IN  /\ r.result.kind = ListedOutcome(tx)
               /\ r.result.kind = "TransactionNotFound" => r.result.id = tx.id

\* ---------------------------------------------------------------- C18
\* C18: a Resolve or Chargeback naming id t returns Ok only while a dispute
\* of t is open (a Dispute of t returned Ok and no Resolve of t returned Ok
\* since), and a Dispute naming t does not return Ok while one is open.
C18DisputeCycle ==
    \A tx \in Transaction :
        UseTx(accounts, txset, tx).result = Ok
        => /\ tx.txtype \in {"Resolve", "Chargeback"} => tx.id \in open
           /\ tx.txtype = "Dispute" => tx.id \notin open

\* ---------------------------------------------------------------- C19
\* C19: after a call that does not return NegativeAmount the transaction's
\* client has an account; no call removes an account; an account a call
\* creates is unlocked with held = 0 and available = 0, or the amount when
\* that very call is a Deposit returning Ok; and every account's client
\* field equals its key.
C19AccountsLazyAndKept ==
    /\ \A c \in DOMAIN accounts : accounts[c].client = c
    /\ \A tx \in Transaction :
          LET r == UseTx(accounts, txset, tx)
              first == IF tx.txtype = "Deposit" /\ r.result = Ok
                       THEN tx.amount[1] ELSE 0
          IN  /\ r.result # NegativeAmount => tx.client \in DOMAIN r.accounts
              /\ DOMAIN accounts \subseteq DOMAIN r.accounts
              /\ \A c \in DOMAIN r.accounts \ DOMAIN accounts :
                    r.accounts[c] = [client |-> c, available |-> first,
                                     held |-> 0, locked |-> FALSE]

\* A ledger that already has an account, on which a Dispute for a client
\* without account fails with TransactionNotFound and still creates it.
C19Witness ==
    \E tx \in Transaction :
        LET r == UseTx(accounts, txset, tx)
        IN  /\ DOMAIN accounts # {}
            /\ tx.client \notin DOMAIN accounts
            /\ tx.txtype = "Dispute"
            /\ r.result = TransactionNotFound(tx.id)
            /\ tx.client \in DOMAIN r.accounts
            /\ r.accounts[tx.client].available = 0

\* ---------------------------------------------------------------- C20
\* C20: a call for client c leaves every other client's account as it was
\* (available, held, locked) and creates no account for another client,
\* whatever the type and the outcome.
C20OtherAccountsUntouched ==
    \A tx \in Transaction :
        LET r == UseTx(accounts, txset, tx)
        IN  \A d \in ClientIds \ {tx.client} :
               IF d \in DOMAIN accounts
               THEN d \in DOMAIN r.accounts /\ r.accounts[d] = accounts[d]
               ELSE d \notin DOMAIN r.accounts

\* A Chargeback by one client naming the disputed Deposit of another, whose
\* held funds would cover it: refused with DisputeMismatch.
C20Witness ==
    \E tx \in Transaction :
        /\ tx.txtype = "Chargeback"
        /\ tx.amount = None
        /\ tx.id \in DOMAIN txset
        /\ txset[tx.id].txtype = "Deposit"
        /\ txset[tx.id].client # tx.client
        /\ txset[tx.id].amount = Some(MaxAmount)
        /\ accounts[txset[tx.id].client].held >= MaxAmount
        /\ UseTx(accounts, txset, tx).result = DisputeMismatch

\* ---------------------------------------------------------------- C21
\* C21: in every reachable ledger and for every call, an account that is
\* unlocked (or absent) before the call and locked after it belongs to the
\* client of the call, which is a Chargeback returning Ok; and an account
\* that is locked before the call has the same available, held and locked
\* after it, with the history left as it was when the call is for that
\* client. Holding at every step, this makes a locked account final.
C21LockedIsFinal ==
    \A tx \in Transaction :
        LET r == UseTx(accounts, txset, tx)
        IN  /\ \A c \in DOMAIN r.accounts :
                  (r.accounts[c].locked /\ ~AccountOf(accounts, c).locked)
                  => /\ tx.txtype = "Chargeback"
                     /\ tx.client = c
                     /\ r.result = Ok
            /\ \A c \in DOMAIN accounts :
                  accounts[c].locked
                  => /\ c \in DOMAIN r.accounts
                     /\ r.accounts[c] = accounts[c]
                     /\ tx.client = c => r.txset = txset

\* A locked account whose client sends a Deposit with a fresh id and the
\* largest amount: it is refused with AccountLocked.
C21Witness ==
    \E tx \in Transaction :
        /\ tx.txtype = "Deposit"
        /\ tx.amount = Some(MaxAmount)
        /\ tx.id \notin DOMAIN txset
        /\ tx.client \in DOMAIN accounts
        /\ accounts[tx.client].locked
        /\ UseTx(accounts, txset, tx).result = AccountLocked

\* ---------------------------------------------------------------- C22
\* available + held of client c in the ledger accs, 0 without an account.
Total(accs, c) == AccountOf(accs, c).available + AccountOf(accs, c).held

\* C22: in every reachable state every client's available + held equals
\* the amounts of its Deposits that returned Ok, less those of its
\* Withdrawals that returned Ok, less those its Chargebacks that returned Ok
\* removed; and a Dispute or Resolve that returns Ok, like every call that
\* returns an error, leaves every client's available + held as it was.
C22FundsConserved ==
    /\ \A c \in ClientIds : Total(accounts, c) = funds[c]
    /\ \A tx \in Transaction :
          LET r == UseTx(accounts, txset, tx)
          IN  (r.result # Ok \/ tx.txtype \in {"Dispute", "Resolve"})
              => \A c \in ClientIds : Total(r.accounts, c) = Total(accounts, c)

\* A client that deposited the largest amount, has all of it held, and
\* sends a Chargeback that returns Ok and removes it, while a Resolve of
\* the same Deposit would return Ok and keep it.
C22Witness ==
    \E tx \in Transaction :
        /\ tx.txtype = "Chargeback"
        /\ tx.client \in DOMAIN accounts
        /\ funds[tx.client] = MaxAmount
        /\ accounts[tx.client].held = MaxAmount
        /\ UseTx(accounts, txset, tx).result = Ok
        /\ Total(UseTx(accounts, txset, tx).accounts, tx.client) = 0
        /\ UseTx(accounts, txset, [tx EXCEPT !.txtype = "Resolve"]).result = Ok

====
